---- MODULE Spec2Model ----
(***************************************************************************)
(* The documentation renderer of the website (TSDoc.tsx: createNode and    *)
(* the TSDoc component; HierarchyText.tsx) and the documentation upload    *)
(* script, as state machines.                                              *)
(*                                                                         *)
(* A DocNode is a record with a field kind and the fields its class has.   *)
(* A React element is a record with a field type; null is the element of   *)
(* type "null".  An absent (undefined) string is the string Undef, an      *)
(* absent node is the record Undefined.  Source text that the code takes   *)
(* apart (fenced code, tag names) is a sequence of one-character strings.  *)
(***************************************************************************)
EXTENDS Naturals, Sequences, FiniteSets

VARIABLES
    \* TSDoc({item, tsdoc})
    tsdoc,      \* the DocNode handed to the component
    item,       \* the ApiItem handed to the component
    phase,      \* "input" before the component has rendered, "rendered" after
    rendered,   \* the element the component returned
    calls,      \* the paths of the nodes createNode was invoked on, in call order
    \* HierarchyText({item, type})
    hItem,      \* the ApiClass or ApiInterface
    hType,      \* "Extends" or "Implements"
    hPhase,     \* "input" or "rendered"
    hOut,       \* the element HierarchyText returned
    \* the upload script
    fs,         \* the file system: file -> "unreadable" or its content
    pkgInput,   \* getInput('package')
    versionInput, \* getInput('version')
    pc,         \* the script's position
    pending,    \* the files the glob generator has still to yield
    file,       \* the loop variable
    data,       \* the content read from file
    inflight,   \* the statements sent to the database and not yet answered
    table,      \* the documentation table: version -> data
    failed,     \* whether setFailed has been called
    log         \* what the script did, in order

docVars == <<tsdoc, item, phase, rendered, calls>>
hierVars == <<hItem, hType, hPhase, hOut>>
upVars == <<fs, pkgInput, versionInput, pc, pending, file, data, inflight, table, failed, log>>
vars == <<docVars, hierVars, upVars>>

\* undefined, where a string is expected
Undef == "<undefined>"

\* undefined, where a node or an object is expected
Undefined == [kind |-> "undefined"]

\* the sequences over S of length at most n
SeqsUpTo(S, n) == UNION {[1..k -> S] : k \in 0..n}

\* the concatenation of the sequences of a sequence
RECURSIVE Concat(_)
Concat(ss) == IF ss = <<>> THEN <<>> ELSE Head(ss) \o Concat(Tail(ss))

\* s without the elements that fail Test, in order (Array.prototype.filter)
SelectIdx(s, Test(_)) ==
    LET RECURSIVE go(_)
        go(i) == IF i > Len(s) THEN <<>>
                 ELSE (IF Test(s[i]) THEN <<i>> ELSE <<>>) \o go(i + 1)
    IN go(1)

----
(***************************************************************************)
(* Strings the code takes apart.                                           *)
(***************************************************************************)

LowerCase == <<"a", "b", "c", "d", "e", "f", "g", "h", "i", "j", "k", "l", "m",
               "n", "o", "p", "q", "r", "s", "t", "u", "v", "w", "x", "y", "z">>
UpperCase == <<"A", "B", "C", "D", "E", "F", "G", "H", "I", "J", "K", "L", "M",
               "N", "O", "P", "Q", "R", "S", "T", "U", "V", "W", "X", "Y", "Z">>

\* String.prototype.toUpperCase, one character
upperChar(c) ==
    IF \E i \in 1..Len(LowerCase) : LowerCase[i] = c
    THEN UpperCase[CHOOSE i \in 1..Len(LowerCase) : LowerCase[i] = c]
    ELSE c

\* String.prototype.toUpperCase
toUpperCase(s) == [i \in 1..Len(s) |-> upperChar(s[i])]

WhiteSpace == {" ", "\n", "\t"}

\* trim as trimStart
trimStartOnly(s) ==
    LET first == CHOOSE i \in 1..(Len(s) + 1) :
                    /\ \A j \in 1..(i - 1) : s[j] \in WhiteSpace
                    /\ i <= Len(s) => s[i] \notin WhiteSpace
    IN SubSeq(s, first, Len(s))

\* String.prototype.trim
trim(s) ==
    LET first == CHOOSE i \in 1..(Len(s) + 1) :
                    /\ \A j \in 1..(i - 1) : s[j] \in WhiteSpace
                    /\ i <= Len(s) => s[i] \notin WhiteSpace
        last == CHOOSE i \in 0..Len(s) :
                    /\ \A j \in (i + 1)..Len(s) : s[j] \in WhiteSpace
                    /\ i >= 1 => s[i] \notin WhiteSpace
    IN SubSeq(s, first, last)

\* StandardTags.example.tagNameWithUpperCase
exampleTagUpper == <<"@", "E", "X", "A", "M", "P", "L", "E">>

\* StandardTags.defaultValue.tagNameWithUpperCase
defaultValueTagUpper == <<"@", "D", "E", "F", "A", "U", "L", "T", "V", "A", "L", "U", "E">>

----
(***************************************************************************)
(* React elements.                                                         *)
(***************************************************************************)

Null == [type |-> "null"]

\* a string child
Text(s) == [type |-> "#text", text |-> s]

\* a string child whose characters the model keeps
Chars(c) == [type |-> "#chars", chars |-> c]

\* an array child, as Array.prototype.map returns
Array(els) == [type |-> "#array", children |-> els]

\* key={idx}
NoKey == <<>>
Key(i) == <<i>>

\* a step of a path from the root node to a node: the field, and the index in it
Step(f, i) == [f |-> f, i |-> i]

----
(***************************************************************************)
(* The API model, as far as createNode reads it.                           *)
(***************************************************************************)

\* item.getAssociatedModel()
getAssociatedModel(it) == it.model

\* model.resolveDeclarationReference(codeDestination, item).resolvedApiItem
resolvedApiItem(model, codeDestination) ==
    IF codeDestination.ref \in DOMAIN model.members
    THEN model.members[codeDestination.ref]
    ELSE Undefined

\* resolveItemURI(foundItem): the URI of foundItem, whatever its form
resolveItemURI(foundItem) == [of |-> foundItem]

----
(***************************************************************************)
(* createNode.  It returns the element (el) and the paths of the nodes it  *)
(* was invoked on, itself first (calls).                                   *)
(***************************************************************************)

\* case DocNodeKind.PlainText
renderPlainText(node, idx) ==
    [type |-> "span", key |-> idx, children |-> <<Text(node.text)>>]

\* case DocNodeKind.SoftBreak
renderSoftBreak(node, idx) ==
    [type |-> "Fragment", key |-> idx, children |-> <<>>]

\* foundItem of the LinkTag case: optional chaining on the associated model
foundItem(it, codeDestination) ==
    IF getAssociatedModel(it) = Undefined
    THEN Undefined
    ELSE resolvedApiItem(getAssociatedModel(it), codeDestination)

\* the LinkTag case, were an unresolved reference to fall through to the URL
renderLinkTagUrlFallback(it, node, idx) ==
    IF node.codeDestination # Undefined /\ foundItem(it, node.codeDestination) # Undefined
    THEN [type |-> "ItemLink",
          key |-> idx,
          itemURI |-> resolveItemURI(foundItem(it, node.codeDestination)),
          children |-> <<Text(IF node.linkText # Undef
                              THEN node.linkText
                              ELSE foundItem(it, node.codeDestination).displayName)>>]
    ELSE IF node.urlDestination # Undef
         THEN [type |-> "Link",
               key |-> idx,
               href |-> node.urlDestination,
               children |-> <<Text(IF node.linkText # Undef
                                   THEN node.linkText
                                   ELSE node.urlDestination)>>]
         ELSE Null

\* case DocNodeKind.LinkTag
renderLinkTag(it, node, idx) ==
    IF node.codeDestination # Undefined
    THEN IF foundItem(it, node.codeDestination) = Undefined
         THEN Null
         ELSE [type |-> "ItemLink",
               key |-> idx,
               itemURI |-> resolveItemURI(foundItem(it, node.codeDestination)),
               children |-> <<Text(IF node.linkText # Undef
                                   THEN node.linkText
                                   ELSE foundItem(it, node.codeDestination).displayName)>>]
    ELSE IF node.urlDestination # Undef
         THEN [type |-> "Link",
               key |-> idx,
               href |-> node.urlDestination,
               children |-> <<Text(IF node.linkText # Undef
                                   THEN node.linkText
                                   ELSE node.urlDestination)>>]
         ELSE Null

\* case DocNodeKind.CodeSpan
renderCodeSpan(node, idx) ==
    [type |-> "code", key |-> idx, children |-> <<Chars(node.code)>>]

\* case DocNodeKind.FencedCode
renderFencedCode(node, idx) ==
    [type |-> "SyntaxHighlighter",
     key |-> idx,
     code |-> trim(node.code),
     lang |-> IF node.language # Undef THEN node.language ELSE "typescript"]

\* exampleBlocks, were every custom block kept
exampleBlocksUnfiltered(comment) == [i \in 1..Len(comment.customBlocks) |-> i]

\* exampleBlocks of the Comment case: the indices, in comment.customBlocks, of the
\* blocks the filter keeps
exampleBlocks(comment) ==
    SelectIdx(comment.customBlocks,
              LAMBDA block : toUpperCase(block.blockTag.tagName) = exampleTagUpper)

\* defaultValueBlock, were the last matching block taken
defaultValueBlockLast(comment) ==
    LET found == SelectIdx(comment.customBlocks,
                           LAMBDA block : toUpperCase(block.blockTag.tagName) = defaultValueTagUpper)
    IN IF found = <<>> THEN 0 ELSE found[Len(found)]

\* defaultValueBlock of the Comment case: the index, in comment.customBlocks, of the
\* block find returns, 0 when it returns undefined
defaultValueBlock(comment) ==
    LET found == SelectIdx(comment.customBlocks,
                           LAMBDA block : toUpperCase(block.blockTag.tagName) = defaultValueTagUpper)
    IN IF found = <<>> THEN 0 ELSE found[1]

\* <DeprecatedBlock>, <RemarksBlock>, ... around one rendered content
Block(type, key, child) == [type |-> type, key |-> key, children |-> <<child>>]

\* the see section, were the array tested and not its length
seeSectionArrayTest(comment, sees) ==
    [type |-> "SeeBlock",
     key |-> NoKey,
     children |-> <<Array([k \in 1..Len(sees) |-> sees[k].el])>>]

\* {comment.seeBlocks.length ? <SeeBlock>...</SeeBlock> : null}
seeSection(comment, sees) ==
    IF Len(comment.seeBlocks) # 0
    THEN [type |-> "SeeBlock",
          key |-> NoKey,
          children |-> <<Array([k \in 1..Len(sees) |-> sees[k].el])>>]
    ELSE Null

\* the children of the <div> of the Comment case, from the rendered contents:
\* r is a record of the results of createNode on the contents of the blocks
commentChildren(comment, r) ==
    << IF comment.deprecatedBlock # Undefined
       THEN Block("DeprecatedBlock", NoKey, r.deprecated.el)
       ELSE Null,
       IF comment.summarySection # Undefined THEN r.summary.el ELSE Null,
       IF comment.remarksBlock # Undefined
       THEN Block("RemarksBlock", NoKey, r.remarks.el)
       ELSE Null,
       IF defaultValueBlock(comment) # 0
       THEN Block("DefaultValueBlock", NoKey, r.defaultValue.el)
       ELSE Null,
       IF comment.returnsBlock # Undefined
       THEN Block("ReturnsBlock", NoKey, r.returns.el)
       ELSE Null,
       IF Len(exampleBlocks(comment)) # 0
       THEN Array([k \in 1..Len(r.examples) |->
                      Block("ExampleBlock", Key(k - 1), r.examples[k].el)])
       ELSE Null,
       seeSection(comment, r.sees) >>

\* the calls of the Comment case, in the order the JSX evaluates them
commentCalls(comment, r) ==
    (IF comment.deprecatedBlock # Undefined THEN r.deprecated.calls ELSE <<>>)
    \o (IF comment.summarySection # Undefined THEN r.summary.calls ELSE <<>>)
    \o (IF comment.remarksBlock # Undefined THEN r.remarks.calls ELSE <<>>)
    \o (IF defaultValueBlock(comment) # 0 THEN r.defaultValue.calls ELSE <<>>)
    \o (IF comment.returnsBlock # Undefined THEN r.returns.calls ELSE <<>>)
    \o (IF Len(exampleBlocks(comment)) # 0
        THEN Concat([k \in 1..Len(r.examples) |-> r.examples[k].calls])
        ELSE <<>>)
    \o (IF Len(comment.seeBlocks) # 0
        THEN Concat([k \in 1..Len(r.sees) |-> r.sees[k].calls])
        ELSE <<>>)

RECURSIVE createNode(_, _, _, _)
createNode(it, node, idx, path) ==
    CASE node.kind = "PlainText" ->
            [el |-> renderPlainText(node, idx), calls |-> <<path>>]
      [] node.kind \in {"Section", "Paragraph"} ->
            LET r == [i \in 1..Len(node.nodes) |->
                        createNode(it, node.nodes[i], Key(i - 1), Append(path, Step("nodes", i)))]
            IN [el |-> [type |-> "span",
                        key |-> idx,
                        children |-> <<Array([i \in 1..Len(r) |-> r[i].el])>>],
                calls |-> <<path>> \o Concat([i \in 1..Len(r) |-> r[i].calls])]
      [] node.kind = "SoftBreak" ->
            [el |-> renderSoftBreak(node, idx), calls |-> <<path>>]
      [] node.kind = "LinkTag" ->
            [el |-> renderLinkTag(it, node, idx), calls |-> <<path>>]
      [] node.kind = "CodeSpan" ->
            [el |-> renderCodeSpan(node, idx), calls |-> <<path>>]
      [] node.kind = "FencedCode" ->
            [el |-> renderFencedCode(node, idx), calls |-> <<path>>]
      [] node.kind = "Comment" ->
            LET ex == exampleBlocks(node)
                dv == defaultValueBlock(node)
                sub(content, f, i) == createNode(it, content, NoKey, Append(path, Step(f, i)))
                r == [deprecated |->
                        IF node.deprecatedBlock # Undefined
                        THEN sub(node.deprecatedBlock.content, "deprecatedBlock", 0)
                        ELSE Undefined,
                      summary |->
                        IF node.summarySection # Undefined
                        THEN sub(node.summarySection, "summarySection", 0)
                        ELSE Undefined,
                      remarks |->
                        IF node.remarksBlock # Undefined
                        THEN sub(node.remarksBlock.content, "remarksBlock", 0)
                        ELSE Undefined,
                      defaultValue |->
                        IF dv # 0
                        THEN sub(node.customBlocks[dv].content, "customBlocks", dv)
                        ELSE Undefined,
                      returns |->
                        IF node.returnsBlock # Undefined
                        THEN sub(node.returnsBlock.content, "returnsBlock", 0)
                        ELSE Undefined,
                      examples |->
                        [k \in 1..Len(ex) |->
                            sub(node.customBlocks[ex[k]].content, "customBlocks", ex[k])],
                      sees |->
                        [k \in 1..Len(node.seeBlocks) |->
                            createNode(it, node.seeBlocks[k].content, Key(k - 1),
                                       Append(path, Step("seeBlocks", k)))]]
            IN [el |-> [type |-> "div", key |-> NoKey, children |-> commentChildren(node, r)],
                calls |-> <<path>> \o commentCalls(node, r)]
      [] OTHER -> [el |-> Null, calls |-> <<path>>]

\* the TSDoc component
TSDoc(it, node) ==
    IF node.kind = "Paragraph" \/ node.kind = "Section"
    THEN LET r == [i \in 1..Len(node.nodes) |->
                     createNode(it, node.nodes[i], Key(i - 1), <<Step("nodes", i)>>)]
         IN [el |-> [type |-> "Fragment",
                     key |-> NoKey,
                     children |-> <<[type |-> "Fragment",
                                     key |-> NoKey,
                                     children |-> <<Array([i \in 1..Len(r) |-> r[i].el])>>]>>],
             calls |-> Concat([i \in 1..Len(r) |-> r[i].calls])]
    ELSE LET r == createNode(it, node, NoKey, <<>>)
         IN [el |-> [type |-> "Fragment", key |-> NoKey, children |-> <<r.el>>],
             calls |-> r.calls]

----
(***************************************************************************)
(* The inputs of the TSDoc component.                                      *)
(***************************************************************************)

\* the most nodes of a nested documentation tree
MaxNodes == 4

\* the most child nodes of a paragraph whose children are drawn from all leaves
MaxSiblings == 2

\* the most custom blocks of a comment
MaxBlocks == 2

\* the most see blocks of a comment
MaxSee == 2

PlainText(text) == [kind |-> "PlainText", text |-> text]
Paragraph(nodes) == [kind |-> "Paragraph", nodes |-> nodes]
Section(nodes) == [kind |-> "Section", nodes |-> nodes]
SoftBreak == [kind |-> "SoftBreak"]
CodeSpan(code) == [kind |-> "CodeSpan", code |-> code]
FencedCode(language, code) == [kind |-> "FencedCode", language |-> language, code |-> code]
DeclarationReference(ref) == [kind |-> "DeclarationReference", ref |-> ref]
LinkTag(codeDestination, urlDestination, linkText) ==
    [kind |-> "LinkTag", codeDestination |-> codeDestination,
     urlDestination |-> urlDestination, linkText |-> linkText]
\* a node of a kind createNode has no case for, with child nodes of its own
InlineTag(nodes) == [kind |-> "InlineTag", nodes |-> nodes]
DocBlock(tagName, content) ==
    [kind |-> "Block", blockTag |-> [kind |-> "BlockTag", tagName |-> tagName], content |-> content]

\* the item a reference may resolve to
TargetItem == [kind |-> "Class", displayName |-> "Target", model |-> Undefined]

\* the items TSDoc is rendered for: one with no associated model, one whose model
\* resolves RefA and nothing else
Items ==
    { [kind |-> "Class", displayName |-> "Owner", model |-> Undefined],
      [kind |-> "Class", displayName |-> "Owner",
       model |-> [kind |-> "Model", members |-> [r \in {"RefA"} |-> TargetItem]]] }

LinkTags ==
    { LinkTag(c, u, t) :
        c \in {Undefined, DeclarationReference("RefA"), DeclarationReference("RefB")},
        u \in {Undef, "https://example.org"},
        t \in {Undef, "link text"} }

Codes == { <<" ", "x", " ", "y", "\n">>, <<"\n", " ">> }

AllLeaves ==
    {PlainText("a"), PlainText("b"), SoftBreak, InlineTag(<<>>)}
    \cup LinkTags
    \cup {CodeSpan(<<" ", "x", " ">>)}
    \cup {FencedCode(l, c) : l \in {Undef, "js"}, c \in Codes}

\* a leaf, or a paragraph of leaves
FlatDocs == AllLeaves \cup {Paragraph(s) : s \in SeqsUpTo(AllLeaves, MaxSiblings)}

\* the leaves of the nested trees: a text, and a link that resolves in no model
CoreLeaves ==
    { PlainText("a"),
      LinkTag(DeclarationReference("RefB"), "https://example.org", Undef) }

RECURSIVE TreesOfSize(_)
RECURSIVE Forests(_)
\* the sequences of trees of m nodes in all
Forests(m) ==
    IF m = 0 THEN {<<>>}
    ELSE UNION { {<<t>> \o f : t \in TreesOfSize(k), f \in Forests(m - k)} : k \in 1..m }

\* the trees of n nodes
TreesOfSize(n) ==
    (IF n = 1 THEN CoreLeaves ELSE {})
    \cup { [kind |-> k, nodes |-> f] :
             k \in {"Paragraph", "Section", "InlineTag"}, f \in Forests(n - 1) }

NestedDocs == UNION {TreesOfSize(n) : n \in 1..MaxNodes}

\* the content of a block: a section of one paragraph
Content(nodes) == Section(<<Paragraph(nodes)>>)

CustomBlocks ==
    { DocBlock(<<"@", "e", "x", "a", "m", "p", "l", "e">>, Content(<<PlainText("example 1")>>)),
      DocBlock(<<"@", "E", "x", "a", "m", "p", "l", "e">>, Content(<<PlainText("example 2")>>)),
      DocBlock(<<"@", "d", "e", "f", "a", "u", "l", "t", "V", "a", "l", "u", "e">>,
               Content(<<PlainText("default 1")>>)),
      DocBlock(<<"@", "d", "e", "f", "a", "u", "l", "t", "v", "a", "l", "u", "e">>,
               Content(<<PlainText("default 2")>>)),
      DocBlock(<<"@", "t", "h", "r", "o", "w", "s">>,
               Content(<<PlainText("throws"), InlineTag(<<PlainText("hidden")>>)>>)) }

SeeBlocks ==
    { DocBlock(<<"@", "s", "e", "e">>, c) :
        c \in { Content(<<LinkTag(DeclarationReference("RefA"), Undef, Undef)>>),
                Content(<<PlainText("see 2")>>) } }

Comments ==
    { [kind |-> "Comment",
       deprecatedBlock |-> d,
       summarySection |-> s,
       remarksBlock |-> r,
       returnsBlock |-> t,
       customBlocks |-> c,
       seeBlocks |-> e] :
        d \in {Undefined, DocBlock(<<"@", "d", "e", "p", "r", "e", "c", "a", "t", "e", "d">>,
                                   Content(<<PlainText("deprecated")>>))},
        s \in {Section(<<Paragraph(<<PlainText("summary"), SoftBreak>>)>>)},
        r \in {Undefined, DocBlock(<<"@", "r", "e", "m", "a", "r", "k", "s">>,
                                   Content(<<PlainText("remarks")>>))},
        t \in {Undefined, DocBlock(<<"@", "r", "e", "t", "u", "r", "n", "s">>,
                                   Content(<<PlainText("returns")>>))},
        c \in SeqsUpTo(CustomBlocks, MaxBlocks),
        e \in SeqsUpTo(SeeBlocks, MaxSee) }

\* the item whose model resolves RefA
ItemWithModel == CHOOSE it \in Items : it.model # Undefined

\* what TSDoc is given: <<item, tsdoc>>
DocInputs ==
    (Items \X FlatDocs) \cup ({ItemWithModel} \X (NestedDocs \cup Comments))

----
(***************************************************************************)
(* The TSDoc component as a state machine: it is given an item and a       *)
(* documentation tree, and renders them.                                   *)
(***************************************************************************)

DocIdle ==
    /\ tsdoc = Undefined /\ item = Undefined /\ phase = "none"
    /\ rendered = Null /\ calls = <<>>

TSDocRender ==
    /\ phase = "input"
    /\ LET r == TSDoc(item, tsdoc)
       IN /\ rendered' = r.el
          /\ calls' = r.calls
    /\ phase' = "rendered"
    /\ UNCHANGED <<tsdoc, item, hierVars, upVars>>

----
(***************************************************************************)
(* HierarchyText.                                                          *)
(***************************************************************************)

\* the most types an item implements or extends
MaxTypes == 2

\* !extendsTypes: an array is truthy, the empty one too
isFalsyArray(a) == FALSE

\* the element HierarchyText returns for a non-empty list of excerpts
renderExcerpts(model, type, excerpts) ==
    [type |-> "div",
     key |-> NoKey,
     children |->
        << [type |-> "h3", key |-> NoKey, children |-> <<Text(type)>>],
           [type |-> "span",
            key |-> NoKey,
            children |->
               <<Array([i \in 1..Len(excerpts) |->
                          [type |-> "ExcerptText", key |-> Key(i - 1),
                           excerpt |-> excerpts[i], model |-> model]])>>] >>]

\* the first test, were a class to need both an extended and an implemented type
hasNoHierarchyEitherMissing(it) ==
    \/ /\ it.kind = "Class"
       /\ (it.extendsType = Undefined \/ Len(it.implementsTypes) = 0)
    \/ /\ it.kind = "Interface"
       /\ isFalsyArray(it.extendsTypes)

\* the first test of HierarchyText
hasNoHierarchy(it) ==
    \/ /\ it.kind = "Class"
       /\ it.extendsType = Undefined
       /\ Len(it.implementsTypes) = 0
    \/ /\ it.kind = "Interface"
       /\ isFalsyArray(it.extendsTypes)

HierarchyText(it, type) ==
    LET model == getAssociatedModel(it) IN
    IF hasNoHierarchy(it)
    THEN Null
    ELSE IF it.kind = "Class"
         THEN IF type = "Implements"
              THEN IF Len(it.implementsTypes) = 0
                   THEN Null
                   ELSE renderExcerpts(model, type,
                            [i \in 1..Len(it.implementsTypes) |-> it.implementsTypes[i].excerpt])
              ELSE IF it.extendsType = Undefined
                   THEN Null
                   ELSE renderExcerpts(model, type, <<it.extendsType.excerpt>>)
         ELSE IF Len(it.extendsTypes) = 0
              THEN Null
              ELSE renderExcerpts(model, type,
                       [i \in 1..Len(it.extendsTypes) |-> it.extendsTypes[i].excerpt])

\* a HeritageType
HeritageType(excerpt) == [kind |-> "HeritageType", excerpt |-> excerpt]

HeritageTypes == {HeritageType(e) : e \in {"Base", "Disposable", "Emitter"}}

TheModel == [kind |-> "Model"]

HierarchyItems ==
    { [kind |-> "Class", displayName |-> "C", model |-> TheModel,
       extendsType |-> x, implementsTypes |-> i] :
        x \in HeritageTypes \cup {Undefined}, i \in SeqsUpTo(HeritageTypes, MaxTypes) }
    \cup
    { [kind |-> "Interface", displayName |-> "I", model |-> TheModel, extendsTypes |-> x] :
        x \in SeqsUpTo(HeritageTypes, MaxTypes) }

HierIdle == hItem = Undefined /\ hType = "none" /\ hPhase = "none" /\ hOut = Null

HierarchyRender ==
    /\ hPhase = "input"
    /\ hOut' = HierarchyText(hItem, hType)
    /\ hPhase' = "rendered"
    /\ UNCHANGED <<hItem, hType, docVars, upVars>>

----
(***************************************************************************)
(* The upload script.  A package is named by its name; its documentation   *)
(* file, packages/<name>/docs/docs.api.json, is named by the package.      *)
(***************************************************************************)

\* the packages of the repository
MaxPackages == 3

PackageNames == <<"brokers", "builders", "collection", "rest", "ws">>

Packages == {PackageNames[i] : i \in 1..MaxPackages}

Blobs == {"blob 1", "blob 2"}

Versions == {"main", "14.0.0"}

\* getInput('package') || '*'
pkg == IF pkgInput = "" THEN "*" ELSE pkgInput

\* getInput('version') || 'main'
version == IF versionInput = "" THEN "main" ELSE versionInput

\* whether packages/${pkg}/docs/docs.api.json matches the documentation file of p
globMatches(pattern, p) == pattern = "*" \/ pattern = p

\* what globber.globGenerator() yields: the matching files that exist, in path order
globFiles(pattern) ==
    LET idx == SelectIdx(PackageNames,
                         LAMBDA p : /\ p \in Packages
                                    /\ fs[p] # "absent"
                                    /\ globMatches(pattern, p))
    IN [i \in 1..Len(idx) |-> PackageNames[idx[i]]]

\* replace into documentation (version, data) values (?, ?), version being the key
ReplaceInto(t, v, d) == [t EXCEPT ![v] = d]

Event(what, f) == [what |-> what, file |-> f]

UploadIdle ==
    /\ fs = <<>> /\ pkgInput = "" /\ versionInput = "" /\ pc = "none"
    /\ pending = <<>> /\ file = "" /\ data = "" /\ inflight = {}
    /\ table = <<>> /\ failed = FALSE /\ log = <<>>

\* const globber = await create(...); the generator is started
Create ==
    /\ pc = "create"
    /\ pending' = globFiles(pkg)
    /\ pc' = "next"
    /\ UNCHANGED <<fs, pkgInput, versionInput, file, data, inflight, table, failed, log, docVars, hierVars>>

\* for await (const file of ...): the generator yields the next file
GlobYield ==
    /\ pc = "next"
    /\ pending # <<>>
    /\ file' = Head(pending)
    /\ pending' = Tail(pending)
    /\ log' = Append(log, Event("yield", Head(pending)))
    /\ pc' = "read"
    /\ UNCHANGED <<fs, pkgInput, versionInput, data, inflight, table, failed, docVars, hierVars>>

\* for await (const file of ...): the generator is exhausted
GlobDone ==
    /\ pc = "next"
    /\ pending = <<>>
    /\ pc' = "done"
    /\ UNCHANGED <<fs, pkgInput, versionInput, pending, file, data, inflight, table, failed, log, docVars, hierVars>>

\* const data = await readFile(file, 'utf8'), fulfilled
ReadFileOk ==
    /\ pc = "read"
    /\ fs[file] # "unreadable"
    /\ data' = fs[file]
    /\ log' = Append(log, Event("read", file))
    /\ pc' = "execute"
    /\ UNCHANGED <<fs, pkgInput, versionInput, pending, file, inflight, table, failed, docVars, hierVars>>

\* const data = await readFile(file, 'utf8'), rejected: the statement is outside the
\* try block, so the rejection leaves the loop and ends the script
ReadFileRejected ==
    /\ pc = "read"
    /\ fs[file] = "unreadable"
    /\ log' = Append(log, Event("read rejected", file))
    /\ pc' = "crashed"
    /\ UNCHANGED <<fs, pkgInput, versionInput, pending, file, data, inflight, table, failed, docVars, hierVars>>

\* sql.execute(...), were it called and not awaited
ExecuteNotAwaited ==
    /\ pc = "execute"
    /\ inflight' = inflight \cup {[version |-> version, data |-> data, file |-> file]}
    /\ log' = Append(log, Event("execute", file))
    /\ pc' = "next"
    /\ UNCHANGED <<fs, pkgInput, versionInput, pending, file, data, table, failed, docVars, hierVars>>

\* sql.execute(...) is called and awaited
Execute ==
    /\ pc = "execute"
    /\ inflight' = inflight \cup {[version |-> version, data |-> data, file |-> file]}
    /\ log' = Append(log, Event("execute", file))
    /\ pc' = "await"
    /\ UNCHANGED <<fs, pkgInput, versionInput, pending, file, data, table, failed, docVars, hierVars>>

\* the database runs a statement and answers; the await, if the script is at it,
\* returns
ExecuteOk ==
    /\ pc \in {"await", "next", "read", "execute", "done"}
    /\ \E st \in inflight :
        /\ table' = ReplaceInto(table, st.version, st.data)
        /\ inflight' = inflight \ {st}
        /\ log' = Append(log, Event("execute ok", st.file))
    /\ pc' = IF pc = "await" THEN "next" ELSE pc
    /\ UNCHANGED <<fs, pkgInput, versionInput, pending, file, data, failed, docVars, hierVars>>

\* the database rejects a statement; the await, if the script is at it, throws and
\* the catch block calls setFailed
ExecuteRejected ==
    /\ pc \in {"await", "next", "read", "execute", "done"}
    /\ \E st \in inflight :
        /\ inflight' = inflight \ {st}
        /\ log' = Append(log, Event("execute rejected", st.file))
    /\ failed' = TRUE
    /\ pc' = IF pc = "await" THEN "next" ELSE pc
    /\ UNCHANGED <<fs, pkgInput, versionInput, pending, file, data, table, docVars, hierVars>>

----
(***************************************************************************)
(* The specifications.                                                     *)
(***************************************************************************)

InitDoc ==
    /\ \E in \in DocInputs : item = in[1] /\ tsdoc = in[2]
    /\ phase = "input"
    /\ rendered = Null
    /\ calls = <<>>
    /\ HierIdle
    /\ UploadIdle

InitHier ==
    /\ hItem \in HierarchyItems
    /\ hType \in {"Extends", "Implements"}
    /\ hPhase = "input"
    /\ hOut = Null
    /\ DocIdle
    /\ UploadIdle

InitUpload ==
    /\ fs \in [Packages -> Blobs \cup {"absent", "unreadable"}]
    /\ pkgInput \in Packages \cup {""}
    /\ versionInput \in {"", "14.0.0"}
    /\ pc = "create"
    /\ pending = <<>>
    /\ file = ""
    /\ data = ""
    /\ inflight = {}
    /\ table = [v \in Versions |-> Undef]
    /\ failed = FALSE
    /\ log = <<>>
    /\ DocIdle
    /\ HierIdle

NextDoc == TSDocRender

NextHier == HierarchyRender

NextUpload ==
    \/ Create
    \/ GlobYield
    \/ GlobDone
    \/ ReadFileOk
    \/ ReadFileRejected
    \/ Execute
    \/ ExecuteOk
    \/ ExecuteRejected

\* the TSDoc component
SpecDoc == InitDoc /\ [][NextDoc]_vars

\* HierarchyText
SpecHier == InitHier /\ [][NextHier]_vars

\* the upload script
SpecUpload == InitUpload /\ [][NextUpload]_vars

----
(***************************************************************************)
(* What an element displays: its tokens, in document order.  A token has   *)
(* a type t, two strings s and s2, and a sequence of characters c.         *)
(***************************************************************************)

Tok(t, s1, s2, c) == [t |-> t, s |-> s1, s2 |-> s2, c |-> c]

Wrappers ==
    {"DeprecatedBlock", "RemarksBlock", "DefaultValueBlock", "ReturnsBlock",
     "ExampleBlock", "SeeBlock"}

RECURSIVE Shown(_)
Shown(el) ==
    CASE el.type = "null" -> <<>>
      [] el.type = "#text" -> <<Tok("text", el.text, "", <<>>)>>
      [] el.type = "#chars" -> <<Tok("code", "", "", el.chars)>>
      [] el.type = "SyntaxHighlighter" -> <<Tok("highlighted", el.lang, "", el.code)>>
      [] el.type = "ItemLink" ->
            <<Tok("item link", el.itemURI.of.displayName, el.children[1].text, <<>>)>>
      [] el.type = "Link" -> <<Tok("link", el.href, el.children[1].text, <<>>)>>
      [] el.type \in Wrappers ->
            <<Tok("open", el.type, "", <<>>)>>
            \o Concat([i \in 1..Len(el.children) |-> Shown(el.children[i])])
            \o <<Tok("close", el.type, "", <<>>)>>
      [] OTHER -> Concat([i \in 1..Len(el.children) |-> Shown(el.children[i])])

\* c without the white space at its start
RECURSIVE DropLeading(_)
DropLeading(c) ==
    IF c # <<>> /\ Head(c) \in WhiteSpace THEN DropLeading(Tail(c)) ELSE c

\* c without the white space at its end
RECURSIVE DropTrailing(_)
DropTrailing(c) ==
    IF c # <<>> /\ c[Len(c)] \in WhiteSpace
    THEN DropTrailing(SubSeq(c, 1, Len(c) - 1))
    ELSE c

\* whether the model of it resolves the reference ref
Resolves(it, ref) == it.model # Undefined /\ ref \in DOMAIN it.model.members

\* what a link tag is to display
LinkShown(it, node) ==
    IF node.codeDestination # Undefined
    THEN IF Resolves(it, node.codeDestination.ref)
         THEN LET target == it.model.members[node.codeDestination.ref]
              IN <<Tok("item link", target.displayName,
                       IF node.linkText = Undef THEN target.displayName ELSE node.linkText,
                       <<>>)>>
         ELSE <<>>
    ELSE IF node.urlDestination # Undef
         THEN <<Tok("link", node.urlDestination,
                    IF node.linkText = Undef THEN node.urlDestination ELSE node.linkText,
                    <<>>)>>
         ELSE <<>>

\* what a node that is no comment is to display, kind by kind
RECURSIVE NodeShown(_, _)
NodeShown(it, node) ==
    CASE node.kind = "PlainText" -> <<Tok("text", node.text, "", <<>>)>>
      [] node.kind \in {"Paragraph", "Section"} ->
            Concat([i \in 1..Len(node.nodes) |-> NodeShown(it, node.nodes[i])])
      [] node.kind = "SoftBreak" -> <<>>
      [] node.kind = "CodeSpan" -> <<Tok("code", "", "", node.code)>>
      [] node.kind = "FencedCode" ->
            <<Tok("highlighted",
                  IF node.language = Undef THEN "typescript" ELSE node.language,
                  "",
                  DropTrailing(DropLeading(node.code)))>>
      [] node.kind = "LinkTag" -> LinkShown(it, node)
      [] OTHER -> <<>>

Rendered == phase = "rendered"

\* the elements of the child nodes of a rendered paragraph or section
ChildElements == rendered.children[1].children[1].children

\* el is what a node of the kind of node, alone, is rendered as when that is nothing
\* or empty
NothingOk(node, el) ==
    /\ node.kind = "InlineTag" => el = Null
    /\ node.kind = "SoftBreak" => el.type = "Fragment" /\ el.children = <<>>

----
(***************************************************************************)
(* C1.  Every node that is no link tag and no comment block is rendered    *)
(* according to its kind and nothing else: plain text displays its text, a *)
(* paragraph or section what its child nodes display, in child order, a    *)
(* soft break nothing, a code span its code unchanged, a fenced code node  *)
(* its code trimmed, highlighted as its language or as typescript when it  *)
(* has none, and a node of any other kind nothing, whatever its siblings.  *)
(***************************************************************************)
C1_RendersByKind ==
    (Rendered /\ tsdoc.kind # "Comment") =>
        /\ Shown(rendered) = NodeShown(item, tsdoc)
        /\ IF tsdoc.kind \in {"Paragraph", "Section"}
           THEN /\ Len(ChildElements) = Len(tsdoc.nodes)
                /\ \A i \in 1..Len(tsdoc.nodes) : NothingOk(tsdoc.nodes[i], ChildElements[i])
           ELSE NothingOk(tsdoc, rendered.children[1])

\* a fenced code node with white space around its code and no language, between a
\* text and a node of unknown kind, has been rendered
C1_Witness ==
    /\ Rendered
    /\ tsdoc.kind = "Paragraph"
    /\ Len(tsdoc.nodes) = 2
    /\ tsdoc.nodes[1].kind = "InlineTag"
    /\ tsdoc.nodes[2].kind = "FencedCode"
    /\ tsdoc.nodes[2].language = Undef
    /\ tsdoc.nodes[2].code = <<" ", "x", " ", "y", "\n">>
    /\ ChildElements[1] = Null
    /\ Shown(rendered) = <<Tok("highlighted", "typescript", "", <<"x", " ", "y">>)>>

----
(***************************************************************************)
(* C3.  A link tag with a code destination is rendered as a link to the    *)
(* resolved item if and only if the associated model resolves the          *)
(* reference, with the tag's link text or else the item's display name,    *)
(* and as nothing when there is no model or the reference does not         *)
(* resolve, also when the tag has a URL destination; with no code          *)
(* destination and a URL destination it is rendered as a link to the URL,  *)
(* with the link text or else the URL; with neither, as nothing.  The      *)
(* siblings of a link tag that renders nothing are rendered all the same.  *)
(***************************************************************************)

\* the element el is what the link tag node is to be rendered as
LinkElementOk(it, node, el) ==
    LET text == el.children[1].text IN
    IF node.codeDestination # Undefined
    THEN /\ el.type = "ItemLink" <=> Resolves(it, node.codeDestination.ref)
         /\ ~Resolves(it, node.codeDestination.ref) => el = Null
         /\ Resolves(it, node.codeDestination.ref) =>
               LET target == it.model.members[node.codeDestination.ref]
               IN /\ el.itemURI.of = target
                  /\ text = IF node.linkText # Undef THEN node.linkText ELSE target.displayName
    ELSE IF node.urlDestination # Undef
         THEN /\ el.type = "Link"
              /\ el.href = node.urlDestination
              /\ text = IF node.linkText # Undef THEN node.linkText ELSE node.urlDestination
         ELSE el = Null

C3_LinkTagResolution ==
    Rendered =>
        /\ tsdoc.kind = "LinkTag" => LinkElementOk(item, tsdoc, rendered.children[1])
        /\ (tsdoc.kind = "Paragraph" /\ \E i \in 1..Len(tsdoc.nodes) : tsdoc.nodes[i].kind = "LinkTag") =>
              /\ Len(ChildElements) = Len(tsdoc.nodes)
              /\ \A i \in 1..Len(tsdoc.nodes) :
                    IF tsdoc.nodes[i].kind = "LinkTag"
                    THEN LinkElementOk(item, tsdoc.nodes[i], ChildElements[i])
                    ELSE Shown(ChildElements[i]) = NodeShown(item, tsdoc.nodes[i])

\* a link tag whose reference the model does not resolve, with a URL destination, has
\* been rendered as nothing before a text that has been rendered
C3_Witness ==
    /\ Rendered
    /\ tsdoc.kind = "Paragraph"
    /\ Len(tsdoc.nodes) = 2
    /\ tsdoc.nodes[1].kind = "LinkTag"
    /\ tsdoc.nodes[1].codeDestination # Undefined
    /\ tsdoc.nodes[1].urlDestination # Undef
    /\ item.model # Undefined
    /\ ~Resolves(item, tsdoc.nodes[1].codeDestination.ref)
    /\ tsdoc.nodes[2].kind = "PlainText"
    /\ ChildElements[1] = Null
    /\ Shown(ChildElements[2]) = <<Tok("text", tsdoc.nodes[2].text, "", <<>>)>>

----
(***************************************************************************)
(* The sections of a rendered comment block.                               *)
(***************************************************************************)

\* the <div> of a rendered comment
CommentDiv == rendered.children[1]

\* the elements of a sequence of children, arrays opened and nulls left out
RECURSIVE Present(_)
Present(els) ==
    IF els = <<>> THEN <<>>
    ELSE (CASE Head(els).type = "null" -> <<>>
            [] Head(els).type = "#array" -> Present(Head(els).children)
            [] OTHER -> <<Head(els)>>)
         \o Present(Tail(els))

\* a and b are the same tag name, but for the case of letters
SameTagIgnoringCase(a, b) ==
    /\ Len(a) = Len(b)
    /\ \A i \in 1..Len(a) :
          \/ a[i] = b[i]
          \/ \E k \in 1..Len(LowerCase) : {a[i], b[i]} = {LowerCase[k], UpperCase[k]}

IsExample(block) ==
    SameTagIgnoringCase(block.blockTag.tagName, <<"@", "e", "x", "a", "m", "p", "l", "e">>)

IsDefaultValue(block) ==
    SameTagIgnoringCase(block.blockTag.tagName,
                        <<"@", "d", "e", "f", "a", "u", "l", "t", "V", "a", "l", "u", "e">>)

\* the custom blocks of a comment that are examples, in comment order
Examples(comment) ==
    LET idx == SelectIdx(comment.customBlocks, IsExample)
    IN [k \in 1..Len(idx) |-> comment.customBlocks[idx[k]]]

\* the custom blocks of a comment that are default values, in comment order
DefaultValues(comment) ==
    LET idx == SelectIdx(comment.customBlocks, IsDefaultValue)
    IN [k \in 1..Len(idx) |-> comment.customBlocks[idx[k]]]

\* what a section named name, of the content nodes, is to display
SectionShown(it, name, contents) ==
    <<Tok("open", name, "", <<>>)>>
    \o Concat([k \in 1..Len(contents) |-> NodeShown(it, contents[k])])
    \o <<Tok("close", name, "", <<>>)>>

\* what the sections of a comment are to display, each an element of the sequence:
\* those that are present, in the fixed order
SectionsShown(it, comment) ==
    (IF comment.deprecatedBlock # Undefined
     THEN <<SectionShown(it, "DeprecatedBlock", <<comment.deprecatedBlock.content>>)>>
     ELSE <<>>)
    \o <<NodeShown(it, comment.summarySection)>>
    \o (IF comment.remarksBlock # Undefined
        THEN <<SectionShown(it, "RemarksBlock", <<comment.remarksBlock.content>>)>>
        ELSE <<>>)
    \o (IF DefaultValues(comment) # <<>>
        THEN <<SectionShown(it, "DefaultValueBlock", <<DefaultValues(comment)[1].content>>)>>
        ELSE <<>>)
    \o (IF comment.returnsBlock # Undefined
        THEN <<SectionShown(it, "ReturnsBlock", <<comment.returnsBlock.content>>)>>
        ELSE <<>>)
    \o [k \in 1..Len(Examples(comment)) |->
          SectionShown(it, "ExampleBlock", <<Examples(comment)[k].content>>)]
    \o (IF comment.seeBlocks # <<>>
        THEN <<SectionShown(it, "SeeBlock",
                            [k \in 1..Len(comment.seeBlocks) |-> comment.seeBlocks[k].content])>>
        ELSE <<>>)

----
(***************************************************************************)
(* C2.  A rendered comment block has one section for each documentation   *)
(* section that is present and none for one that is absent, no empty       *)
(* wrapper either, in the order deprecated, summary, remarks, default      *)
(* value, returns, examples, see; each displays the content of its own     *)
(* section, whichever other sections are absent.                           *)
(***************************************************************************)
C2_CommentSections ==
    (Rendered /\ tsdoc.kind = "Comment") =>
        LET sections == Present(CommentDiv.children)
        IN /\ CommentDiv.type = "div"
           /\ [k \in 1..Len(sections) |-> Shown(sections[k])] = SectionsShown(item, tsdoc)

\* a comment with no deprecated and no default value block, and with remarks, returns,
\* an example and a see block, has been rendered
C2_Witness ==
    /\ Rendered
    /\ tsdoc.kind = "Comment"
    /\ tsdoc.deprecatedBlock = Undefined
    /\ tsdoc.remarksBlock # Undefined
    /\ tsdoc.returnsBlock # Undefined
    /\ DefaultValues(tsdoc) = <<>>
    /\ Len(Examples(tsdoc)) = 1
    /\ Len(tsdoc.seeBlocks) = 1
    /\ [k \in 1..Len(Present(CommentDiv.children)) |-> Present(CommentDiv.children)[k].type]
          = <<"span", "RemarksBlock", "ReturnsBlock", "ExampleBlock", "SeeBlock">>

----
(***************************************************************************)
(* C10.  Custom blocks are selected by tag name, whatever the case of its  *)
(* letters: each example block is rendered as an example section of its    *)
(* own, in comment order; of the default value blocks the first is         *)
(* rendered and no other; no other custom block is rendered.               *)
(***************************************************************************)

\* the sections of the rendered comment whose wrapper is type
SectionsOfType(type) ==
    LET sections == Present(CommentDiv.children)
        idx == SelectIdx(sections, LAMBDA el : el.type = type)
    IN [k \in 1..Len(idx) |-> Shown(sections[idx[k]])]

\* whether createNode was invoked on the content of custom block i
ContentVisited(i) == \E k \in 1..Len(calls) : calls[k] = <<Step("customBlocks", i)>>

C10_CustomBlockSelection ==
    (Rendered /\ tsdoc.kind = "Comment") =>
        /\ SectionsOfType("ExampleBlock") =
              [k \in 1..Len(Examples(tsdoc)) |->
                  SectionShown(item, "ExampleBlock", <<Examples(tsdoc)[k].content>>)]
        /\ SectionsOfType("DefaultValueBlock") =
              IF DefaultValues(tsdoc) = <<>>
              THEN <<>>
              ELSE <<SectionShown(item, "DefaultValueBlock", <<DefaultValues(tsdoc)[1].content>>)>>
        /\ \A i \in 1..Len(tsdoc.customBlocks) :
              ContentVisited(i) <=>
                 \/ IsExample(tsdoc.customBlocks[i])
                 \/ /\ IsDefaultValue(tsdoc.customBlocks[i])
                    /\ \A j \in 1..(i - 1) : ~IsDefaultValue(tsdoc.customBlocks[j])

\* a comment of two default value blocks has been rendered with the first one only;
\* the tag name of the second is in lower case
C10_Witness ==
    /\ Rendered
    /\ tsdoc.kind = "Comment"
    /\ Len(tsdoc.customBlocks) = 2
    /\ IsDefaultValue(tsdoc.customBlocks[1])
    /\ IsDefaultValue(tsdoc.customBlocks[2])
    /\ tsdoc.customBlocks[1].blockTag.tagName # tsdoc.customBlocks[2].blockTag.tagName
    /\ tsdoc.customBlocks[1].content # tsdoc.customBlocks[2].content
    /\ ContentVisited(1)
    /\ ~ContentVisited(2)
    /\ Len(SectionsOfType("DefaultValueBlock")) = 1

----
(***************************************************************************)
(* C9.  Rendering a tree ends after no more invocations of createNode     *)
(* than the tree has nodes: createNode is invoked at most once on a node,  *)
(* on the child nodes of a paragraph or section and on the contents of the *)
(* parts of a comment block that are rendered (deprecated, summary,        *)
(* remarks, the first default value block, returns, the example blocks,    *)
(* the see blocks), and never on a node below a link tag or below a node   *)
(* of unknown kind.                                                        *)
(***************************************************************************)

\* whether the path p, from node, goes only where createNode may go
RECURSIVE MayVisit(_, _)
MayVisit(node, p) ==
    IF p = <<>> THEN TRUE
    ELSE LET st == Head(p) IN
         CASE node.kind \in {"Paragraph", "Section"} ->
                 /\ st.f = "nodes"
                 /\ st.i \in 1..Len(node.nodes)
                 /\ MayVisit(node.nodes[st.i], Tail(p))
           [] node.kind = "Comment" ->
                 CASE st.f = "deprecatedBlock" ->
                         /\ node.deprecatedBlock # Undefined
                         /\ MayVisit(node.deprecatedBlock.content, Tail(p))
                   [] st.f = "summarySection" ->
                         /\ node.summarySection # Undefined
                         /\ MayVisit(node.summarySection, Tail(p))
                   [] st.f = "remarksBlock" ->
                         /\ node.remarksBlock # Undefined
                         /\ MayVisit(node.remarksBlock.content, Tail(p))
                   [] st.f = "returnsBlock" ->
                         /\ node.returnsBlock # Undefined
                         /\ MayVisit(node.returnsBlock.content, Tail(p))
                   [] st.f = "customBlocks" ->
                         /\ st.i \in 1..Len(node.customBlocks)
                         /\ \/ IsExample(node.customBlocks[st.i])
                            \/ /\ IsDefaultValue(node.customBlocks[st.i])
                               /\ \A j \in 1..(st.i - 1) : ~IsDefaultValue(node.customBlocks[j])
                         /\ MayVisit(node.customBlocks[st.i].content, Tail(p))
                   [] st.f = "seeBlocks" ->
                         /\ st.i \in 1..Len(node.seeBlocks)
                         /\ MayVisit(node.seeBlocks[st.i].content, Tail(p))
                   [] OTHER -> FALSE
           [] OTHER -> FALSE

\* the sum of the numbers of a sequence
RECURSIVE Sum(_)
Sum(ns) == IF ns = <<>> THEN 0 ELSE Head(ns) + Sum(Tail(ns))

\* the nodes of the contents of a sequence of blocks, absent ones left out
RECURSIVE NodeCount(_)
BlocksNodeCount(blocks) ==
    Sum([k \in 1..Len(blocks) |->
            IF blocks[k] = Undefined THEN 0 ELSE NodeCount(blocks[k].content)])

\* the nodes of a tree, those of the tags and references of its blocks and links
\* left out
NodeCount(node) ==
    CASE node.kind \in {"Paragraph", "Section", "InlineTag"} ->
            1 + Sum([i \in 1..Len(node.nodes) |-> NodeCount(node.nodes[i])])
      [] node.kind = "Comment" ->
            1 + NodeCount(node.summarySection)
              + BlocksNodeCount(<<node.deprecatedBlock, node.remarksBlock, node.returnsBlock>>)
              + BlocksNodeCount(node.customBlocks)
              + BlocksNodeCount(node.seeBlocks)
      [] OTHER -> 1

SinglePass ==
    /\ \A j, k \in 1..Len(calls) : calls[j] = calls[k] => j = k
    /\ \A k \in 1..Len(calls) : MayVisit(tsdoc, calls[k])
    /\ Len(calls) <= NodeCount(tsdoc)

C9_TerminatesInOnePass == Rendered => SinglePass

\* a tree has been rendered in which a node of unknown kind has a child, on which
\* createNode was not invoked, and a later sibling, on which it was
C9_Witness ==
    /\ Rendered
    /\ tsdoc.kind = "Section"
    /\ Len(tsdoc.nodes) = 2
    /\ tsdoc.nodes[1].kind = "InlineTag"
    /\ Len(tsdoc.nodes[1].nodes) = 1
    /\ tsdoc.nodes[2].kind = "PlainText"
    /\ calls = << <<Step("nodes", 1)>>, <<Step("nodes", 2)>> >>

----
(***************************************************************************)
(* C6.  HierarchyText renders nothing if and only if the list of types     *)
(* selected by the kind of the item and the type is empty: the extended    *)
(* type of a class, if it has one, for Extends, the implemented types of a *)
(* class for Implements, the extended types of an interface.  Otherwise it *)
(* renders a heading equal to type and one excerpt for each selected type, *)
(* in the order the item declares them.                                    *)
(***************************************************************************)

HierarchyRendered == hPhase = "rendered"

\* the types selected by the kind of the item and the type
SelectedTypes(it, type) ==
    IF it.kind = "Class"
    THEN IF type = "Extends"
         THEN IF it.extendsType = Undefined THEN <<>> ELSE <<it.extendsType>>
         ELSE it.implementsTypes
    ELSE it.extendsTypes

\* the heading of a rendered hierarchy
Heading(el) == el.children[1].children[1].text

\* the excerpts of a rendered hierarchy, in order
ListedExcerpts(el) ==
    LET texts == el.children[2].children[1].children
    IN [i \in 1..Len(texts) |-> texts[i].excerpt]

C6_HierarchyMatchesSelection ==
    HierarchyRendered =>
        LET selected == SelectedTypes(hItem, hType)
        IN /\ hOut = Null <=> selected = <<>>
           /\ selected # <<>> =>
                 /\ Heading(hOut) = hType
                 /\ ListedExcerpts(hOut) = [i \in 1..Len(selected) |-> selected[i].excerpt]

\* a class that implements two types and extends none has been rendered for
\* Implements, which lists both in order
C6_Witness ==
    /\ HierarchyRendered
    /\ hItem.kind = "Class"
    /\ hType = "Implements"
    /\ hItem.extendsType = Undefined
    /\ Len(hItem.implementsTypes) = 2
    /\ hItem.implementsTypes[1] # hItem.implementsTypes[2]
    /\ ListedExcerpts(hOut) = <<hItem.implementsTypes[1].excerpt, hItem.implementsTypes[2].excerpt>>

----
(***************************************************************************)
(* C8.  Under the heading Implements only implemented types of a class are *)
(* listed: for an interface and the type Implements nothing is rendered.   *)
(***************************************************************************)
C8_ImplementsOnlyForClasses ==
    (HierarchyRendered /\ hType = "Implements" /\ hItem.kind = "Interface") => hOut = Null

----
(***************************************************************************)
(* The upload script's runs.                                               *)
(***************************************************************************)

\* the script has ended
Finished == pc \in {"done", "crashed"}

\* the files the glob matches, in the order the generator yields them
Matched == globFiles(pkg)

\* the number of events what of file f
Count(what, f) ==
    Cardinality({k \in 1..Len(log) : log[k].what = what /\ log[k].file = f})

----
(***************************************************************************)
(* C4.  A failure while a file is processed, be it read or inserted, marks *)
(* the run as failed and does not stop the loop: once the script has       *)
(* ended, every matched file has had exactly one insert attempt.           *)
(***************************************************************************)
C4_SkipAndContinue ==
    Finished =>
        /\ \A i \in 1..Len(Matched) : Count("execute", Matched[i]) = 1
        /\ (\E k \in 1..Len(log) : log[k].what \in {"read rejected", "execute rejected"}) => failed

----
(***************************************************************************)
(* C5.  After a run in which the glob matched two files or more, every     *)
(* blob whose insert succeeded is in the documentation table under the     *)
(* version it was uploaded under.                                          *)
(***************************************************************************)
C5_UploadedIsRetrievable ==
    (Finished /\ Len(Matched) >= 2) =>
        \A k \in 1..Len(log) :
            log[k].what = "execute ok" => table[version] = fs[log[k].file]

----
(***************************************************************************)
(* C7.  The script processes the files one after the other, in the order   *)
(* the generator yields them: a file is yielded, read, inserted, and the   *)
(* insert answered, before the next file is yielded; no more than one      *)
(* insert is in flight, and only while the script awaits it; the loop ends *)
(* when the generator is exhausted, and no file the glob did not yield is  *)
(* inserted.                                                               *)
(***************************************************************************)

\* what the k-th event of the processing of a file may be
StepOf(k) ==
    CASE k = 0 -> {"yield"}
      [] k = 1 -> {"read", "read rejected"}
      [] k = 2 -> {"execute"}
      [] OTHER -> {"execute ok", "execute rejected"}

C7_SequentialLoop ==
    /\ \A j \in 1..Len(log) :
          /\ (j - 1) \div 4 + 1 <= Len(Matched)
          /\ log[j].file = Matched[(j - 1) \div 4 + 1]
          /\ log[j].what \in StepOf((j - 1) % 4)
          /\ log[j].what = "read rejected" => j = Len(log)
    /\ Cardinality(inflight) <= 1
    /\ inflight # {} => pc = "await" /\ log[Len(log)].what = "execute"
    /\ pc = "done" => pending = <<>> /\ Len(log) = 4 * Len(Matched)
    /\ pc \in {"next", "done"} => Len(pending) + Len(log) \div 4 = Len(Matched)

\* a run over two files has ended: the insert of the first was rejected, and the
\* second was read and inserted after that
C7_Witness ==
    /\ pc = "done"
    /\ Len(Matched) = 2
    /\ failed
    /\ [j \in 1..Len(log) |-> log[j].what] =
          <<"yield", "read", "execute", "execute rejected",
            "yield", "read", "execute", "execute ok">>
    /\ table[version] = fs[Matched[2]]

====
